---- MODULE Spec2Model ----
(***************************************************************************)
(* PestAPI (src/app.py): a Flask server with three routes and a background *)
(* cleanup thread that share one directory, UPLOAD_DIR.                    *)
(*                                                                         *)
(*   POST /predict      field check, decode, inference, draw, save, reply  *)
(*   GET  /static/<f>   send_from_directory(UPLOAD_DIR, f)                 *)
(*   cleanup_worker     while True: scan UPLOAD_DIR, remove old files,     *)
(*                      sleep                                              *)
(*                                                                         *)
(* The steps of predict that touch nothing shared (field check, decode,    *)
(* inference, the draw loop, uuid4) are one action; image.save is split at *)
(* its system calls (open, write, write, ...) because the sweeper and the  *)
(* static route run between them.  The sweeper is split at its system      *)
(* calls as well (time, listdir, isfile/getmtime, remove).                 *)
(*                                                                         *)
(* What the environment decides is a nondeterministic choice: the upload,  *)
(* the model's output or exception, whether drawing a box raises, whether  *)
(* open/write/listdir/getmtime/remove raise, and the passing of time.      *)
(* uuid.uuid4() is modelled as returning an identifier that was never      *)
(* returned before (its collision probability is taken as zero).           *)
(***************************************************************************)
EXTENDS Integers, Sequences, FiniteSets, TLC

VARIABLES
    maxRows,              \* the most boxes the model loaded at line 46 reports for an image
    FILE_MAX_AGE_SECONDS, \* app.py:32, read from the environment at start-up
    clock,                \* time.time(), in whole seconds
    files,                \* UPLOAD_DIR, its regular files: name -> [data, mtime]
    subdirs,              \* UPLOAD_DIR, its subdirectories: name -> the files inside
    health,               \* what the last GET /health answered
    issued,               \* how many identifiers uuid4() has returned
    req,                  \* the predict requests: request -> its frame
    lastRead,             \* what the last GET /static/<f> answered
    swPc,                 \* cleanup_worker: where the thread is
    now,                  \* cleanup_worker: local `now`
    todo,                 \* cleanup_worker: entries of the listing not yet visited
    fpath,                \* cleanup_worker: the entry being removed
    swListing,            \* the listing os.listdir returned in this cycle
    swFailed,             \* entries whose os.remove raised in this cycle (line 133's log)
    swAborted             \* this cycle ended in the outer except (line 137's log)

vars == <<maxRows, FILE_MAX_AGE_SECONDS, clock, files, subdirs, health, issued, req, lastRead,
          swPc, now, todo, fpath, swListing, swFailed, swAborted>>

reqVars == <<issued, req>>
swVars == <<swPc, now, todo, fpath, swListing, swFailed, swAborted>>

----------------------------------------------------------------------------
(* Bounds of the model *)

NumReqs == 2       \* predict requests in one run
MaxClock == 2      \* the clock stops ticking here
MaxBoxes == 2      \* rows of the model's output tensor
NumChunks == 1     \* write() calls image.save needs for one file
MaxAgeCfg == 1     \* FILE_MAX_AGE_SECONDS is configured in 0..MaxAgeCfg

Reqs == 1..NumReqs

None == <<>>

----------------------------------------------------------------------------
(* The model's output.  A row of result.boxes.data is                      *)
(* [x1, y1, x2, y2, conf, cls], all floats; the values are written here in *)
(* hundredths, so conf 92 is 0.92 and cls 100 is class 1.0.                *)

\* the i-th row of the output: boxes, confidences and classes differ from
\* row to row, and the confidences rise, so the output is not sorted by them
Row(i) == <<1000 * i, 500 * i, 1000 * i + 4000, 500 * i + 2500, 30 + 7 * i, 100 * (i % 2)>>

\* what model(image) can return: no box, one row, two rows, ...
RawOutputs(n) == { [i \in 1..k |-> Row(i)] : k \in 0..n }

\* model.names
names == (0 :> "aphid") @@ (1 :> "beetle")

\* str(e) of the exception a model invocation raises
Details == {"CUDA out of memory"}

\* float(x) of a float is that float
float(x) == x

\* int(cls): truncation toward zero of a float (hundredths in, integer out)
int(x) == IF x >= 0 THEN x \div 100 ELSE -((-x) \div 100)

\* lines 79-86: the detection built from one row
Det(box) ==
    [bbox |-> <<float(box[1]), float(box[2]), float(box[3]), float(box[4])>>,
     confidence |-> float(box[5]),
     class |-> int(box[6]),
     label |-> names[int(box[6])]]

\* the rows the loop of lines 76-91 reaches when drawing raises at row
\* failAt (0: drawing never raises): the row is appended before it is drawn
RowsReached(raw, failAt) ==
    IF failAt = 0 THEN Len(raw) ELSE failAt

\* lines 74-94: the detections collected by the loop
Collect(raw, failAt) ==
    [i \in 1..RowsReached(raw, failAt) |-> Det(raw[i])]

----------------------------------------------------------------------------
(* Names and contents of files *)

\* one name for every artifact, in place of a fresh one
Filename_Fixed(u) == <<1, ".jpg">>

\* line 97: f"{uuid.uuid4()}.jpg"
Filename(u) == <<u, ".jpg">>

\* line 106: url_for("serve_static", filename=filename, _external=True)
UrlFor(filename) == <<"http://host/static/">> \o filename

\* line 111: the rule "/static/<path:filename>" matched against a URL: the
\* filename it extracts, or None when the URL is not under /static/
StaticRoute(url) ==
    IF Len(url) > 0 /\ Head(url) = "http://host/static/" THEN Tail(url) ELSE None

\* the bytes image.save writes for request r, one element per write() call
Encoded(r) == [i \in 1..NumChunks |-> <<r, i>>]

AllNames == { Filename(u) : u \in 1..NumReqs }

----------------------------------------------------------------------------
(* GET /health *)

NoHealth == [status |-> 0, body |-> [pending |-> TRUE]]

\* a health check that reports on the artifact directory
HealthReply_ChecksStore ==
    [status |-> IF DOMAIN files = {} THEN 200 ELSE 503, body |-> [ok |-> DOMAIN files = {}]]

\* line 51: jsonify({"ok": True}), 200
HealthReply == [status |-> 200, body |-> [ok |-> TRUE]]

\* lines 49-51
Health ==
    /\ health' = HealthReply
    /\ UNCHANGED <<maxRows, FILE_MAX_AGE_SECONDS, clock, files, subdirs, issued, req, lastRead,
                   swPc, now, todo, fpath, swListing, swFailed, swAborted>>

----------------------------------------------------------------------------
(* POST /predict *)

NoBody == [pending |-> TRUE]

\* what request.files holds: no "image" field, bytes that are no image, an image
Uploads == {"missing", "garbage", "image"}

\* the frame of one call of predict: upload is the request, inferError and
\* saveError the exceptions caught at lines 68 and 101, drawError the one
\* caught at line 92, the rest the locals of the same names
NewFrame ==
    [pc |-> "new", upload |-> "none", inferError |-> "", raw |-> <<>>,
     detections |-> <<>>, drawError |-> FALSE, filename |-> None,
     written |-> 0, saveError |-> FALSE, status |-> 0, body |-> NoBody]

\* what the model invocation of line 67 does: it raises, or returns rows
Raises(detail) == [raises |-> TRUE, detail |-> detail, rows |-> <<>>]
Returns(rows) == [raises |-> FALSE, detail |-> "", rows |-> rows]
Outcomes == { Raises(d) : d \in Details } \cup { Returns(raw) : raw \in RawOutputs(maxRows) }

\* lines 56, 63, 70, 103: the error replies
ErrNoImage == [error |-> "No image provided to API"]
ErrInvalid == [error |-> "Invalid image"]
ErrInference(e) == [error |-> "Model inference failed", detail |-> e]
ErrSave == [error |-> "Failed to save image"]

Reply(f, status, body) == [f EXCEPT !.pc = "done", !.status = status, !.body = body]

\* the exception of the model swallowed: the request goes on with no detections
AfterInferenceFailure_Swallowed(f, e) ==
    [f EXCEPT !.inferError = e, !.pc = "uuid"]

\* lines 68-70: the model invocation raised e
AfterInferenceFailure(f, e) ==
    Reply([f EXCEPT !.inferError = e], 500, ErrInference(e))

\* no decode check: bytes that are no image go on to the model
BeforeSave_NoDecodeCheck(f, upload, outcome, failAt) ==
    LET g == [f EXCEPT !.upload = upload] IN
    IF upload = "missing" THEN Reply(g, 400, ErrNoImage)
    ELSE IF outcome.raises THEN AfterInferenceFailure(g, outcome.detail)
    ELSE [g EXCEPT !.pc = "uuid",
                   !.raw = outcome.rows,
                   !.detections = Collect(outcome.rows, failAt),
                   !.drawError = (failAt # 0)]

\* lines 55-94: the steps of predict before the save, on one upload.
\* outcome: what model(image) does; failAt: the row at which
\* draw.rectangle/draw.text raises (0: none does).
BeforeSave(f, upload, outcome, failAt) ==
    LET g == [f EXCEPT !.upload = upload] IN
    IF upload = "missing" THEN Reply(g, 400, ErrNoImage)
    ELSE IF upload = "garbage" THEN Reply(g, 400, ErrInvalid)
    ELSE IF outcome.raises THEN AfterInferenceFailure(g, outcome.detail)
    ELSE [g EXCEPT !.pc = "uuid",
                   !.raw = outcome.rows,
                   !.detections = Collect(outcome.rows, failAt),
                   !.drawError = (failAt # 0)]

\* lines 55-98: a request arrives and runs up to the call of image.save
PredictStart(r) ==
    /\ req[r].pc = "new"
    /\ \E upload \in Uploads, outcome \in Outcomes :
         \E failAt \in 0..Len(outcome.rows) :
           LET f == BeforeSave(req[r], upload, outcome, failAt) IN
             IF f.pc = "uuid"
               THEN /\ issued' = issued + 1
                    /\ req' = [req EXCEPT ![r] =
                                 [f EXCEPT !.pc = "save",
                                           !.filename = Filename(issued + 1)]]
               ELSE /\ issued' = issued
                    /\ req' = [req EXCEPT ![r] = f]
    /\ UNCHANGED <<subdirs, health, maxRows, FILE_MAX_AGE_SECONDS, clock, files, lastRead>>
    /\ UNCHANGED swVars

\* the exception of image.save ignored: the request goes on to its 200 reply
AfterSaveFailure_Ignored(f) == [f EXCEPT !.saveError = TRUE, !.pc = "saved"]

\* lines 101-103: image.save raised
AfterSaveFailure(f) == Reply([f EXCEPT !.saveError = TRUE], 500, ErrSave)

\* line 100, first half: image.save opens out_path for writing, which
\* creates the file empty, or raises (permission denied, disk full)
SaveOpen(r) ==
    /\ req[r].pc = "save"
    /\ \/ /\ files' = (req[r].filename :> [data |-> <<>>, mtime |-> clock]) @@ files
          /\ req' = [req EXCEPT ![r].pc = "writing"]
       \/ /\ files' = files
          /\ req' = [req EXCEPT ![r] = AfterSaveFailure(req[r])]
    /\ UNCHANGED <<subdirs, health, maxRows, FILE_MAX_AGE_SECONDS, clock, issued, lastRead>>
    /\ UNCHANGED swVars

\* the file after one more write() through the handle of request r: the
\* directory entry, when the sweeper has not unlinked it, grows by one chunk
Written(r) ==
    LET fn == req[r].filename
        k == req[r].written + 1
    IN IF fn \in DOMAIN files
         THEN [files EXCEPT ![fn] = [data |-> Append(files[fn].data, Encoded(r)[k]),
                                     mtime |-> clock]]
         ELSE files

\* line 100, second half: one write() of image.save; it raises (disk full)
\* and leaves what was written, or succeeds; after the last one save returns
SaveWrite(r) ==
    /\ req[r].pc = "writing"
    /\ \/ /\ files' = Written(r)
          /\ req' = [req EXCEPT ![r].written = @ + 1,
                                ![r].pc = IF req[r].written + 1 = NumChunks
                                            THEN "saved" ELSE "writing"]
       \/ /\ files' = files
          /\ req' = [req EXCEPT ![r] = AfterSaveFailure(req[r])]
    /\ UNCHANGED <<subdirs, health, maxRows, FILE_MAX_AGE_SECONDS, clock, issued, lastRead>>
    /\ UNCHANGED swVars

\* a URL built without the /static/ prefix of the route
Response_WrongPrefix(f) ==
    [detections |-> f.detections, image_url |-> <<"http://host/">> \o f.filename]

\* lines 106-108: the body of the 200 reply
Response(f) == [detections |-> f.detections, image_url |-> UrlFor(f.filename)]

\* lines 105-109
PredictRespond(r) ==
    /\ req[r].pc = "saved"
    /\ req' = [req EXCEPT ![r] = Reply(req[r], 200, Response(req[r]))]
    /\ UNCHANGED <<subdirs, health, maxRows, FILE_MAX_AGE_SECONDS, clock, files, issued, lastRead>>
    /\ UNCHANGED swVars

----------------------------------------------------------------------------
(* GET /static/<filename> *)

NoRead == [filename |-> None, status |-> 0, data |-> <<>>]

\* a missing file answered with a server error in place of 404
SendFromDirectory_Raises(dir, filename) ==
    IF filename \in DOMAIN dir
      THEN [filename |-> filename, status |-> 200, data |-> dir[filename].data]
      ELSE [filename |-> filename, status |-> 500, data |-> <<>>]

\* line 113: send_from_directory answers with the file's bytes as they are
\* now, or 404
SendFromDirectory(dir, filename) ==
    IF filename \in DOMAIN dir
      THEN [filename |-> filename, status |-> 200, data |-> dir[filename].data]
      ELSE [filename |-> filename, status |-> 404, data |-> <<>>]

ServeStatic(filename) ==
    /\ lastRead' = SendFromDirectory(files, filename)
    /\ lastRead' # lastRead
    /\ UNCHANGED <<subdirs, health, maxRows, FILE_MAX_AGE_SECONDS, clock, files>>
    /\ UNCHANGED reqVars
    /\ UNCHANGED swVars

----------------------------------------------------------------------------
(* cleanup_worker *)

\* line 123: os.listdir names every entry of the directory, files and
\* subdirectories alike, and nothing below them
ListDir == DOMAIN files \cup DOMAIN subdirs

\* only names that end in .jpg taken for files to sweep
IsFile_JpgOnly(dir, fname) == fname \in DOMAIN dir /\ fname[Len(fname)] = ".jpg"

\* line 125: os.path.isfile
IsFile(dir, fname) == fname \in DOMAIN dir

\* line 127
Age(t, mtime) == t - mtime

\* the threshold taken one second too high
Expired_Late(age) == age > FILE_MAX_AGE_SECONDS + 1

\* line 128
Expired(age) == age > FILE_MAX_AGE_SECONDS

\* no outer except: the exception ends the thread
AfterScanError_Dies == "dead"

\* lines 136-138: an exception of the scan reaches the outer except, is
\* logged, and the thread goes on to time.sleep
AfterScanError == "sleep"

\* no inner except: the exception of os.remove reaches the outer one
AfterRemoveError_Aborts == "sleep"

\* lines 132-133: os.remove raised; it is logged and the for loop goes on
AfterRemoveError == "loop"

\* lines 138, 119-122: time.sleep returns (or the thread has just started)
\* and the next cycle samples the clock
SweepSample ==
    /\ swPc \in {"start", "sleep"}
    /\ now' = clock
    /\ swPc' = "list"
    /\ todo' = {}
    /\ swListing' = {}
    /\ swFailed' = {}
    /\ swAborted' = FALSE
    /\ UNCHANGED <<subdirs, health, maxRows, FILE_MAX_AGE_SECONDS, clock, files, lastRead, fpath>>
    /\ UNCHANGED reqVars

\* line 123: os.listdir returns the names in the directory, or raises
SweepList ==
    /\ swPc = "list"
    /\ \/ /\ todo' = ListDir
          /\ swListing' = ListDir
          /\ swPc' = "loop"
          /\ UNCHANGED swAborted
       \/ /\ swPc' = AfterScanError
          /\ swAborted' = TRUE
          /\ UNCHANGED <<todo, swListing>>
    /\ UNCHANGED <<subdirs, health, maxRows, FILE_MAX_AGE_SECONDS, clock, files, lastRead, now, fpath, swFailed>>
    /\ UNCHANGED reqVars

\* lines 123-128: the loop takes the next name of the listing (os.listdir
\* gives no order), skips it if it is no regular file, reads its mtime (which
\* may raise) and compares the age
SweepExamine ==
    /\ swPc = "loop"
    /\ \E fname \in todo :
         \/ /\ ~IsFile(files, fname)
            /\ todo' = todo \ {fname}
            /\ UNCHANGED <<swPc, fpath, swAborted>>
         \/ /\ IsFile(files, fname)
            /\ IF Expired(Age(now, files[fname].mtime))
                 THEN swPc' = "remove" /\ fpath' = fname
                 ELSE UNCHANGED <<swPc, fpath>>
            /\ todo' = todo \ {fname}
            /\ UNCHANGED swAborted
         \/ /\ IsFile(files, fname)
            /\ swPc' = AfterScanError
            /\ swAborted' = TRUE
            /\ UNCHANGED <<todo, fpath>>
    /\ UNCHANGED <<subdirs, health, maxRows, FILE_MAX_AGE_SECONDS, clock, files, lastRead, now, swListing, swFailed>>
    /\ UNCHANGED reqVars

\* lines 129-133: os.remove(fpath) unlinks the entry, or raises
SweepRemove ==
    /\ swPc = "remove"
    /\ \/ /\ fpath \in DOMAIN files
          /\ files' = [n \in DOMAIN files \ {fpath} |-> files[n]]
          /\ swPc' = "loop"
          /\ UNCHANGED swFailed
       \/ /\ files' = files
          /\ swFailed' = swFailed \cup {fpath}
          /\ swPc' = AfterRemoveError
    /\ fpath' = None
    /\ UNCHANGED <<subdirs, health, maxRows, FILE_MAX_AGE_SECONDS, clock, lastRead, now, todo, swListing, swAborted>>
    /\ UNCHANGED reqVars

\* lines 134-138: the listing is exhausted; the thread calls time.sleep
SweepSleep ==
    /\ swPc = "loop"
    /\ todo = {}
    /\ swPc' = "sleep"
    /\ UNCHANGED <<subdirs, health, maxRows, FILE_MAX_AGE_SECONDS, clock, files, lastRead, now, todo, fpath,
                   swListing, swFailed, swAborted>>
    /\ UNCHANGED reqVars

Sweeper == SweepSample \/ SweepList \/ SweepExamine \/ SweepRemove \/ SweepSleep

----------------------------------------------------------------------------
(* Time *)

Tick ==
    /\ clock < MaxClock
    /\ clock' = clock + 1
    /\ UNCHANGED <<subdirs, health, maxRows, FILE_MAX_AGE_SECONDS, files, lastRead>>
    /\ UNCHANGED reqVars
    /\ UNCHANGED swVars

----------------------------------------------------------------------------
(* The system *)

\* the state when the module has been imported: the directory exists
\* (line 34), the model is loaded (line 46), the cleanup thread is started
\* (line 145), no request has arrived
Start ==
    /\ clock = 0
    /\ health = NoHealth
    /\ issued = 0
    /\ req = [r \in Reqs |-> NewFrame]
    /\ lastRead = NoRead
    /\ swPc = "start"
    /\ now = 0
    /\ todo = {}
    /\ fpath = None
    /\ swListing = {}
    /\ swFailed = {}
    /\ swAborted = FALSE

\* the whole server, with a model that finds nothing in the images it is given
Init ==
    /\ Start
    /\ maxRows = 0
    /\ FILE_MAX_AGE_SECONDS \in 0..MaxAgeCfg
    /\ files = <<>>
    /\ subdirs = <<>>

Next ==
    \/ \E r \in Reqs : PredictStart(r)
    \/ \E r \in Reqs : SaveOpen(r)
    \/ \E r \in Reqs : SaveWrite(r)
    \/ \E r \in Reqs : PredictRespond(r)
    \/ \E filename \in AllNames : ServeStatic(filename)
    \/ Health
    \/ Sweeper
    \/ Tick

Spec == Init /\ [][Next]_vars

\* the cleanup thread is a daemon thread the scheduler keeps running
FairSpec == Spec /\ WF_vars(Sweeper)

\* POST /predict alone, with a model that reports up to MaxBoxes boxes: no
\* GET /static arrives, the cleanup thread is asleep and the clock stands still
InitPredict ==
    /\ Start
    /\ maxRows = MaxBoxes
    /\ FILE_MAX_AGE_SECONDS = MaxAgeCfg
    /\ files = <<>>
    /\ subdirs = <<>>

NextPredict ==
    \/ \E r \in Reqs : PredictStart(r)
    \/ \E r \in Reqs : SaveOpen(r)
    \/ \E r \in Reqs : SaveWrite(r)
    \/ \E r \in Reqs : PredictRespond(r)

SpecPredict == InitPredict /\ [][NextPredict]_vars

\* what UPLOAD_DIR (by default the application's "static" folder) may hold
\* when the server starts: a regular file that no request wrote, and a
\* subdirectory with a file inside, all last modified at time 0
\* (names are <<stem, extension>>; stem 0 is no uuid)
ForeignFile == <<0, ".css">>
SubDir == <<0, "">>
Leftover == [data |-> <<"bytes">>, mtime |-> 0]

\* predict and the cleanup thread on a directory that starts with a foreign
\* file and a subdirectory; no GET arrives
InitSweep ==
    /\ Start
    /\ maxRows = 0
    /\ FILE_MAX_AGE_SECONDS \in 0..MaxAgeCfg
    /\ files = (ForeignFile :> Leftover)
    /\ subdirs = (SubDir :> (Filename(0) :> Leftover))

NextSweep ==
    \/ \E r \in Reqs : PredictStart(r)
    \/ \E r \in Reqs : SaveOpen(r)
    \/ \E r \in Reqs : SaveWrite(r)
    \/ \E r \in Reqs : PredictRespond(r)
    \/ Sweeper
    \/ Tick

SpecSweep == InitSweep /\ [][NextSweep]_vars

----------------------------------------------------------------------------
(* Properties *)

Done(r) == req[r].pc = "done"

\* the entry fn holds all the bytes of the request that named it
Complete(fn) ==
    /\ fn \in DOMAIN files
    /\ \E r \in Reqs : req[r].filename = fn /\ files[fn].data = Encoded(r)

\* the age of entry fn, measured from the sweeper's `now`, is over the maximum
TooOld(fn) == now - files[fn].mtime > FILE_MAX_AGE_SECONDS

Idle == swPc = "sleep"
Scanning == swPc \in {"list", "loop", "remove"}

\* C1: predict answers according to the first step that fails, in the order
\* field check, decode, inference, save: 400 "No image provided to API",
\* 400 "Invalid image", 500 "Model inference failed" with the exception's
\* message (never a 200), 500 "Failed to save image"; every reply that is
\* not a 200 has an "error" key, and every request ends in a reply.
C1_FirstFailureDecides ==
    \A r \in Reqs :
      /\ req[r].pc \in {"new", "save", "writing", "saved", "done"}
      /\ Done(r) =>
           /\ req[r].status \in {200, 400, 500}
           /\ req[r].upload = "missing" =>
                req[r].status = 400 /\ req[r].body = ErrNoImage
           /\ req[r].upload = "garbage" =>
                req[r].status = 400 /\ req[r].body = ErrInvalid
           /\ (req[r].upload = "image" /\ req[r].inferError # "") =>
                /\ req[r].status = 500
                /\ req[r].body = ErrInference(req[r].inferError)
                /\ req[r].filename = None
           /\ (req[r].upload = "image" /\ req[r].inferError = "" /\ req[r].saveError) =>
                req[r].status = 500 /\ req[r].body = ErrSave
           /\ req[r].status # 200 => "error" \in DOMAIN req[r].body
           /\ req[r].status = 200 =>
                req[r].upload = "image" /\ req[r].inferError = "" /\ ~req[r].saveError

\* one request answered 500 for a raising model, another 500 for a failed save
C1_Witness ==
    \E r, q \in Reqs :
      /\ Done(r) /\ req[r].inferError # "" /\ req[r].status = 500
      /\ Done(q) /\ req[q].saveError /\ req[q].status = 500

\* C2: a GET /static/<f> answers with no file or with all the bytes of the
\* finished artifact, never with a partly written file.
C2_NoPartialRead ==
    lastRead.status = 200 =>
      \E r \in Reqs : req[r].filename = lastRead.filename /\ lastRead.data = Encoded(r)

\* C3: a 200 is sent only after every write of the request's own save has
\* succeeded, its image_url names the file of that save, what is in the
\* directory under that name is the whole artifact, and a request whose save
\* raised sends 500 and no detections.
C3_ReplyOnlyAfterSave ==
    \A r \in Reqs :
      /\ (Done(r) /\ req[r].status = 200) =>
           /\ req[r].written = NumChunks
           /\ ~req[r].saveError
           /\ req[r].filename # None
           /\ req[r].body.image_url = UrlFor(req[r].filename)
           /\ req[r].filename \in DOMAIN files => Complete(req[r].filename)
      /\ req[r].saveError =>
           /\ Done(r)
           /\ req[r].status = 500
           /\ "detections" \notin DOMAIN req[r].body
           /\ "image_url" \notin DOMAIN req[r].body

\* one request answered 200 with its artifact in the directory, another saw
\* its save raise and answered 500
C3_Witness ==
    \E r, q \in Reqs :
      /\ Done(r) /\ req[r].status = 200 /\ Complete(req[r].filename)
      /\ Done(q) /\ req[q].saveError /\ req[q].status = 500

\* C4: the detections of a 200 reply are the rows of the model's output, as
\* many, in the same order, with bbox, confidence and class unchanged.
C4_DetectionsAreTheRows ==
    \A r \in Reqs :
      (Done(r) /\ req[r].status = 200) =>
        /\ Len(req[r].body.detections) = Len(req[r].raw)
        /\ \A i \in 1..Len(req[r].body.detections) :
             LET d == req[r].body.detections[i]
                 row == req[r].raw[i]
             IN /\ d.bbox = <<row[1], row[2], row[3], row[4]>>
                /\ d.confidence = row[5]
                /\ d.class * 100 = row[6]

\* C5: when drawing one detection raises, the request still saves and
\* answers 200 (unless the save itself raises), and the reply has the
\* detections of all rows, those after the failing one included.
C5_DrawFailureKeepsDetections ==
    \A r \in Reqs :
      (Done(r) /\ req[r].drawError /\ ~req[r].saveError) =>
        /\ req[r].status = 200
        /\ Len(req[r].body.detections) = Len(req[r].raw)

\* C7: after a sweep cycle, no artifact whose age exceeded
\* FILE_MAX_AGE_SECONDS when the cycle ran is left in the directory.
C7_ExpiredAbsentAfterCycle ==
    Idle => \A fn \in DOMAIN files : ~TooOld(fn)

\* C7, amended: after a sweep cycle that no error of os.listdir or
\* os.path.getmtime cut short, every file whose age exceeded
\* FILE_MAX_AGE_SECONDS when the cycle ran is absent, unless os.remove
\* raised for it.
C7_ExpiredAbsentUnlessError ==
    (Idle /\ ~swAborted) =>
      \A fn \in DOMAIN files :
        TooOld(fn) => fn \in swFailed

\* a cycle has ended without error and has removed an entry of its listing
C7_Witness ==
    /\ Idle /\ ~swAborted /\ swFailed = {}
    /\ \E fn \in swListing : fn \notin DOMAIN files

\* C8: the sweeper never removes an artifact whose age is at most
\* FILE_MAX_AGE_SECONDS.
C8_YoungSurvive ==
    [][\A fn \in DOMAIN files :
         fn \notin DOMAIN files' => TooOld(fn)]_vars

\* C9: the sweeper has no terminal state: it is idle again and again and
\* scanning again and again, whatever errors its scans meet.
C9_SweeperRunsForever ==
    /\ [](swPc \in {"start", "sleep", "list", "loop", "remove"})
    /\ []<>Idle
    /\ []<>Scanning

\* the sweeper sleeps after a scan that ended in the outer except
C9_Witness == Idle /\ swAborted

\* C10: an os.remove that raises does not end the scan: the loop goes on
\* with the rest of the listing, and at the end of such a cycle every listed
\* entry has been visited and every expired one that is still there is one
\* whose removal raised.
C10_RemoveErrorDoesNotAbort ==
    /\ [][(swPc = "remove" /\ swFailed' # swFailed) =>
            (swPc' = "loop" /\ todo' = todo /\ ~swAborted')]_vars
    /\ []((Idle /\ ~swAborted /\ swFailed # {}) =>
            /\ todo = {}
            /\ \A fn \in swListing \cap DOMAIN files :
                 TooOld(fn) => fn \in swFailed)

\* in one cycle the removal of one entry raised and another entry was removed
C10_Witness ==
    /\ Idle /\ ~swAborted /\ swFailed # {}
    /\ \E fn \in swListing : fn \notin DOMAIN files


\* C11: when a request has ended, the directory holds no incomplete file
\* under that request's name: a save that raised was completed or cleaned up.
C11_NoDanglingPartial ==
    \A r \in Reqs :
      (Done(r) /\ req[r].filename \in DOMAIN files) => Complete(req[r].filename)

\* C12: the sweeper does not remove a file while the request that writes it
\* is still inside image.save.
C12_NoDeleteDuringWrite ==
    [][\A r \in Reqs :
         (req[r].pc = "writing" /\ req[r].filename \in DOMAIN files) =>
           req[r].filename \in DOMAIN files']_vars

C14_RoundTrip ==
    /\ [](\A r \in Reqs :
            (Done(r) /\ req[r].status = 200) =>
              LET fn == StaticRoute(req[r].body.image_url) IN
                /\ fn = req[r].filename
                /\ fn \in DOMAIN files =>
                     SendFromDirectory(files, fn) =
                       [filename |-> fn, status |-> 200, data |-> Encoded(r)])
    /\ [][\A r \in Reqs :
            (/\ Done(r) /\ req[r].status = 200
             /\ lastRead' # lastRead
             /\ lastRead'.filename = StaticRoute(req[r].body.image_url)
             /\ lastRead'.status = 200) =>
              lastRead'.data = Encoded(r)]_vars

\* a GET of a returned image_url answered with the bytes of that request
C14_Witness ==
    \E r \in Reqs :
      /\ Done(r) /\ req[r].status = 200
      /\ lastRead = [filename |-> StaticRoute(req[r].body.image_url),
                     status |-> 200, data |-> Encoded(r)]

\* C15: once an artifact is complete no step changes its content; the only
\* thing that happens to it is its removal by the sweeper; a name is created
\* by one request only, once, so a removed name does not come back.
C15_WriteOnce ==
    /\ [][\A fn \in DOMAIN files :
            Complete(fn) =>
              IF fn \in DOMAIN files'
                THEN files'[fn] = files[fn]
                ELSE swPc = "remove" /\ fpath = fn]_vars
    /\ [][\A fn \in AllNames :
            (fn \notin DOMAIN files /\ fn \in DOMAIN files') =>
              \E r \in Reqs :
                /\ req[r].filename = fn
                /\ req[r].pc = "save" /\ req'[r].pc = "writing"
                /\ \A q \in Reqs \ {r} : req[q].filename # fn]_vars
    /\ [][\A r \in Reqs :
            req[r].pc \in {"writing", "saved", "done"} => req'[r].pc # "save"]_vars

\* an artifact that a GET has returned whole has since been removed
C15_Witness ==
    \E r \in Reqs :
      /\ Done(r) /\ req[r].status = 200
      /\ req[r].filename \notin DOMAIN files
      /\ lastRead = [filename |-> req[r].filename, status |-> 200, data |-> Encoded(r)]

\* C16: GET /health answers 200 {"ok": true} in every state, every time, and
\* changes nothing but that answer.
C16_HealthAlwaysOk ==
    /\ [](ENABLED Health)
    /\ [](health.status # 0 => health.status = 200 /\ health.body = [ok |-> TRUE])
    /\ [][health' # health =>
            UNCHANGED <<maxRows, FILE_MAX_AGE_SECONDS, clock, files, subdirs, issued,
                        req, lastRead, swPc, now, todo, fpath, swListing, swFailed,
                        swAborted>>]_vars

\* /health has answered while the directory holds a file and the sweeper is
\* about to remove one
C16_Witness ==
    /\ health.status = 200
    /\ DOMAIN files # {}
    /\ swPc = "remove"

\* C17: a request that fails at the field check, at decode or at inference
\* has no filename, has written nothing and has collected nothing; its step
\* leaves the directory and the count of issued ids as they were; every
\* request file in the directory belongs to a request that passed inference,
\* and entries are added only by requests in the save.
C17_FailureStopsThePipeline ==
    /\ [](\A r \in Reqs :
            (Done(r) /\ (req[r].upload \in {"missing", "garbage"} \/ req[r].inferError # "")) =>
              /\ req[r].filename = None
              /\ req[r].written = 0
              /\ req[r].detections = <<>> /\ ~req[r].drawError /\ ~req[r].saveError)
    /\ [](issued = Cardinality({r \in Reqs : req[r].filename # None}))
    /\ [](\A fn \in DOMAIN files \cap AllNames :
            \E r \in Reqs :
              /\ req[r].filename = fn
              /\ req[r].upload = "image" /\ req[r].inferError = "")
    /\ [][\A r \in Reqs :
            (req[r].pc = "new" /\ req'[r].pc = "done") =>
              files' = files /\ issued' = issued]_vars
    /\ [][DOMAIN files' \ DOMAIN files # {} =>
            \E r \in Reqs : req[r].pc = "save" /\ req'[r].pc = "writing"]_vars

\* one request stopped at decode and another at inference, and no id was issued
C17_Witness ==
    \E r, q \in Reqs :
      /\ Done(r) /\ req[r].upload = "garbage"
      /\ Done(q) /\ req[q].inferError # ""
      /\ issued = 0 /\ DOMAIN files = {}

\* C18: a cycle never removes a file whose last modification is at or after
\* the cycle's sample of `now`.
C18_ModifiedAfterSampleSurvives ==
    [][\A fn \in DOMAIN files :
         (swPc = "remove" /\ fn \notin DOMAIN files') => files[fn].mtime < now]_vars

\* C19: the sweeper leaves subdirectories and what is in them alone and
\* removes only regular files; at the end of a cycle that no listdir or
\* getmtime error cut short every entry was visited, and every regular file,
\* whatever its name, that is over the age is gone unless os.remove raised.
C19_OnlyRegularFilesSwept ==
    /\ [][subdirs' = subdirs]_vars
    /\ [](swPc = "remove" => fpath \in swListing /\ fpath \notin DOMAIN subdirs)
    /\ []((Idle /\ ~swAborted) =>
            /\ todo = {}
            /\ \A fn \in DOMAIN files : TooOld(fn) => fn \in swFailed)

\* a cycle listed the subdirectory and the foreign file, removed the file and
\* left the subdirectory
C19_Witness ==
    /\ Idle /\ ~swAborted /\ swFailed = {}
    /\ {ForeignFile, SubDir} \subseteq swListing
    /\ ForeignFile \notin DOMAIN files
    /\ SubDir \in DOMAIN subdirs

====
